---- MODULE Spec2Model ----
(***************************************************************************)
(* A model of the stress_relationships library:                            *)
(*   stress_tensor/stress_tensor.py       class StressTensor               *)
(*   stress_tensor/time_series_stress.py  class TimeSeriesStressTensor     *)
(*   strain_gauge/strain_gauge_rosette_0_45_90.py  the rosette functions   *)
(*                                                                         *)
(* Numbers.  The library computes in IEEE doubles; the model computes in   *)
(* exact integer (and, for the rosette functions, exact rational)          *)
(* arithmetic.  Rounding error is therefore not modelled: an equality the  *)
(* model establishes is an equality of the real-number results.  Angles    *)
(* are drawn from those whose sine and cosine are exact in the chosen      *)
(* number system (quarter turns for the 3D rotations).                     *)
(***************************************************************************)
EXTENDS Integers, Sequences, FiniteSets, TLC

VARIABLES
    tensors,   \* the StressTensor instances alive, by identity (index)
    data,      \* TimeSeriesStressTensor.data: the rows, in stored order
    call,      \* the last call made on the library
    ret,       \* what that call returned or raised
    clock,     \* the latest time datetime.now() has returned
    rin,       \* rosette functions: the arguments of the last call
    rout       \* rosette functions: the value it returned

vars == <<tensors, data, call, ret, clock, rin, rout>>

(***************************************************************************)
(* Bounds of the model.                                                    *)
(***************************************************************************)
\* instances alive at once (allocation is disabled beyond it)
MaxTensors == 2
\* timestamps are 1..MaxTs
MaxTs == 2
\* rosette readings, strains and stresses are the halves n/2 with
\* |n| <= MaxHalf
MaxHalf == 4
\* where stored tensors are rotated, the timestamps are 1..MaxStored
MaxStored == 1

(***************************************************************************)
(* 3x3 matrices: a matrix is a tuple of three rows.                        *)
(***************************************************************************)
Idx == 1..3

Mat(a, b, c, d, e, f, g, h, i) == << <<a, b, c>>, <<d, e, f>>, <<g, h, i>> >>

Transpose(A) ==
    Mat(A[1][1], A[2][1], A[3][1],
        A[1][2], A[2][2], A[3][2],
        A[1][3], A[2][3], A[3][3])

Dot(A, B, i, j) == A[i][1] * B[1][j] + A[i][2] * B[2][j] + A[i][3] * B[3][j]

\* numpy's A @ B on two 3x3 arrays
MatMul(A, B) ==
    Mat(Dot(A, B, 1, 1), Dot(A, B, 1, 2), Dot(A, B, 1, 3),
        Dot(A, B, 2, 1), Dot(A, B, 2, 2), Dot(A, B, 2, 3),
        Dot(A, B, 3, 1), Dot(A, B, 3, 2), Dot(A, B, 3, 3))

Identity3 == Mat(1, 0, 0, 0, 1, 0, 0, 0, 1)

Abs(x) == IF x < 0 THEN -x ELSE x

Sign(x) == IF x > 0 THEN 1 ELSE IF x < 0 THEN -1 ELSE 0

Max2(a, b) == IF a >= b THEN a ELSE b

(***************************************************************************)
(* StressTensor.__init__                                                   *)
(*                                                                         *)
(* An argument is [kind, shape, data]: its Python type, its array shape    *)
(* (the tuple of dimensions; <<>> for a scalar) and its elements in        *)
(* row-major order.                                                        *)
(***************************************************************************)
Raise(exc) == [ok |-> FALSE, exc |-> exc]

\* the number of elements under one index of the first axis
RowSize(shape) ==
    IF Len(shape) = 1 THEN 1
    ELSE IF Len(shape) = 2 THEN shape[2]
    ELSE shape[2] * shape[3]

\* components[i]: a scalar of a vector, a row of a nested sequence
Item(components, i) ==
    IF Len(components.shape) = 1
    THEN components.data[i]
    ELSE SubSeq(components.data,
                (i - 1) * RowSize(components.shape) + 1,
                i * RowSize(components.shape))

StressTensor_init(components) ==
    IF components.kind \in {"list", "ndarray"}
    THEN IF components.shape = <<>>
         THEN Raise("TypeError")          \* len() of an unsized (0-d) array
         ELSE IF components.shape[1] = 6
              THEN LET xx == Item(components, 1)
                       yy == Item(components, 2)
                       zz == Item(components, 3)
                       xy == Item(components, 4)
                       yz == Item(components, 5)
                       xz == Item(components, 6)
                   IN  [ok |-> TRUE,
                        shape |-> <<3, 3>> \o Tail(components.shape),
                        components |-> Mat(xx, xy, xz,
                                           xy, yy, yz,
                                           xz, yz, zz)]
              ELSE IF components.shape = <<3, 3>>
                   THEN LET d == components.data
                        IN  [ok |-> TRUE,
                             shape |-> <<3, 3>>,
                             components |-> Mat(d[1], d[2], d[3],
                                                d[4], d[5], d[6],
                                                d[7], d[8], d[9])]
                   ELSE Raise("ValueError")
    ELSE Raise("TypeError")

(***************************************************************************)
(* Arguments of the constructor.                                           *)
(***************************************************************************)
Arg(kind, shape, d) == [kind |-> kind, shape |-> shape, data |-> d]

\* six-vectors [xx, yy, zz, xy, yz, xz]
Tensile == <<2, 2, 5, 1, 0, 0>>          \* principal stresses 1, 3, 5

Compressive == <<-2, -2, -5, 1, 0, 0>>   \* principal stresses -5, -3, -1

Distinct == <<1, 2, 3, 4, 5, 6>>         \* all six entries differ

\* 3 x 3 matrices, row-major
SymmetricMatrix == <<3, 1, 0, 1, 3, 0, 0, 0, 1>>

AsymmetricMatrix == <<2, 1, 0, 3, 3, 0, 0, 0, 4>>

\* a 6-row input whose rows are themselves sequences (shape 6 x 2)
SixRows == Arg("list", <<6, 2>>, <<1, 2, 3, 4, 5, 6, 7, 8, 9, 10, 11, 12>>)

Malformed ==
    { Arg("list", <<5>>, <<1, 2, 3, 4, 5>>),
      Arg("ndarray", <<3, 2>>, <<1, 2, 3, 4, 5, 6>>),
      SixRows,
      Arg("ndarray", <<>>, <<7>>),
      Arg("tuple", <<6>>, <<1, 2, 3, 4, 5, 6>>),
      Arg("int", <<>>, <<7>>) }

\* the arguments tried where tensors are rotated
TensorInputs ==
    { Arg("list", <<6>>, Tensile),
      Arg("ndarray", <<6>>, Compressive),
      Arg("list", <<3, 3>>, SymmetricMatrix),
      Arg("ndarray", <<3, 3>>, AsymmetricMatrix) } \cup Malformed

\* the arguments tried where tensors are stored in a time series
SeriesInputs ==
    { Arg("list", <<6>>, Distinct),
      Arg("ndarray", <<3, 3>>, AsymmetricMatrix) }

(***************************************************************************)
(* The derived quantities of a StressTensor.                               *)
(*                                                                         *)
(* numpy.linalg.eigh reads the lower triangle of its argument only and     *)
(* returns the eigenvalues in ascending order.  Eigenvalues are the roots  *)
(* of the characteristic polynomial; the model computes them where all     *)
(* three are integers (HasIntegerSpectrum) and otherwise knows them by     *)
(* the coefficients of the polynomial (Invariants).  A square root is      *)
(* kept as its radicand: Surd(n) stands for sqrt(n).                       *)
(***************************************************************************)
\* the symmetric matrix eigh works on: the lower triangle, mirrored
Lower(s) ==
    Mat(s[1][1], s[2][1], s[3][1],
        s[2][1], s[2][2], s[3][2],
        s[3][1], s[3][2], s[3][3])

Trace(s) == s[1][1] + s[2][2] + s[3][3]

Det(s) ==
      s[1][1] * (s[2][2] * s[3][3] - s[2][3] * s[3][2])
    - s[1][2] * (s[2][1] * s[3][3] - s[2][3] * s[3][1])
    + s[1][3] * (s[2][1] * s[3][2] - s[2][2] * s[3][1])

\* det(s - x I)
CharPoly(s, x) ==
    Det(Mat(s[1][1] - x, s[1][2], s[1][3],
            s[2][1], s[2][2] - x, s[2][3],
            s[3][1], s[3][2], s[3][3] - x))

\* the coefficients of the characteristic polynomial: they fix the
\* eigenvalues with their multiplicities
Invariants(s) ==
    << Trace(s),
       (s[1][1] * s[2][2] - s[1][2] * s[2][1])
         + (s[2][2] * s[3][3] - s[2][3] * s[3][2])
         + (s[1][1] * s[3][3] - s[1][3] * s[3][1]),
       Det(s) >>

\* every eigenvalue lies within the largest absolute row sum
RowSum(s, i) == Abs(s[i][1]) + Abs(s[i][2]) + Abs(s[i][3])

Radius(s) == Max2(RowSum(s, 1), Max2(RowSum(s, 2), RowSum(s, 3)))

IntegerRoots(s) == {x \in -Radius(s)..Radius(s) : CharPoly(s, x) = 0}

\* the ascending eigenvalues, given the integer roots r (not empty)
Ascending(s, r) ==
    LET lo == CHOOSE x \in r : \A y \in r : x <= y
        hi == CHOOSE x \in r : \A y \in r : y <= x
    IN  <<lo, Trace(s) - lo - hi, hi>>

HasIntegerSpectrum(s) ==
    LET r == IntegerRoots(Lower(s))
    IN  /\ r # {}
        /\ LET e == Ascending(Lower(s), r)
           IN  /\ e[2] \in r
               /\ e[1] * e[2] + e[2] * e[3] + e[1] * e[3] = Invariants(Lower(s))[2]
               /\ e[1] * e[2] * e[3] = Invariants(Lower(s))[3]

\* principal_stresses[0]: the eigenvalues eigh returns
StressTensor_principal_stresses(s) == Ascending(Lower(s), IntegerRoots(Lower(s)))

Surd(n) == [radicand |-> n]

\* sign * sqrt(n)
SignedSurd(sign, n) ==
    IF sign = 0 \/ n = 0
    THEN [sign |-> 0, radicand |-> 0]
    ELSE [sign |-> sign, radicand |-> n]

\* sqrt(0.5 * (...)); the bracket is even, so the radicand is an integer
von_mises(s) ==
    Surd(( (s[1][1] - s[2][2]) * (s[1][1] - s[2][2])
         + (s[2][2] - s[3][3]) * (s[2][2] - s[3][3])
         + (s[3][3] - s[1][1]) * (s[3][3] - s[1][1])
         + 6 * (s[1][2] * s[1][2] + s[2][3] * s[2][3] + s[1][3] * s[1][3]) ) \div 2)

tresca(s) ==
    LET p == StressTensor_principal_stresses(s)
    IN  Max2(Abs(p[1] - p[2]), Max2(Abs(p[2] - p[3]), Abs(p[3] - p[1])))

\* np.sign(hydrostatic_stress), hydrostatic_stress = trace / 3
HydrostaticSign(s) == Sign(Trace(s))

signed_von_mises(s) == SignedSurd(HydrostaticSign(s), von_mises(s).radicand)

signed_tresca(s) == HydrostaticSign(s) * tresca(s)

(***************************************************************************)
(* Rotations.  An Euler angle is a number of quarter turns (k stands for   *)
(* k * pi/2), for which cosine and sine are exact.                         *)
(***************************************************************************)
Cos(k) == <<1, 0, -1, 0>>[(k % 4) + 1]

Sin(k) == <<0, 1, 0, -1>>[(k % 4) + 1]

\* R = Rz @ Ry @ Rx of rotate_by_euler_angles
EulerMatrix(angles) ==
    LET theta_x == angles[1]
        theta_y == angles[2]
        theta_z == angles[3]
        Rx == Mat(1, 0, 0,
                  0, Cos(theta_x), -Sin(theta_x),
                  0, Sin(theta_x), Cos(theta_x))
        Ry == Mat(Cos(theta_y), 0, Sin(theta_y),
                  0, 1, 0,
                  -Sin(theta_y), 0, Cos(theta_y))
        Rz == Mat(Cos(theta_z), -Sin(theta_z), 0,
                  Sin(theta_z), Cos(theta_z), 0,
                  0, 0, 1)
    IN  MatMul(MatMul(Rz, Ry), Rx)

\* a slip: the transpose forgotten
CongruenceNoTranspose(R, components) == MatMul(MatMul(R, components), R)

\* rotated_components = R @ self.components @ R.T
Congruence(R, components) == MatMul(MatMul(R, components), Transpose(R))

Flat(A) == A[1] \o A[2] \o A[3]

Instance(id) == [kind |-> "instance", id |-> id]

Raised(exc) == [kind |-> "raise", exc |-> exc]

\* a slip: the receiver rebound before the flag is looked at
RebindAlways(ts, self, rotated_components, inplace) ==
    IF inplace
    THEN [tensors |-> [ts EXCEPT ![self].components = rotated_components],
          ret |-> Instance(self)]
    ELSE [tensors |-> Append([ts EXCEPT ![self].components = rotated_components],
                             [shape |-> <<3, 3>>,
                              components |-> rotated_components]),
          ret |-> Instance(Len(ts) + 1)]

\* the `if inplace: ... else: ...` tail of both rotation methods, on the heap
\* ts: the new heap and the value returned
Rebind(ts, self, rotated_components, inplace) ==
    IF inplace
    THEN [tensors |-> [ts EXCEPT ![self].components = rotated_components],
          ret |-> Instance(self)]
    ELSE LET new == StressTensor_init(
                        Arg("ndarray", <<3, 3>>, Flat(rotated_components)))
         IN  [tensors |-> Append(ts, [shape |-> new.shape,
                                      components |-> new.components]),
              ret |-> Instance(Len(ts) + 1)]

rotate_by_matrix(ts, self, rotation_matrix, inplace) ==
    Rebind(ts, self, Congruence(rotation_matrix, ts[self].components), inplace)

rotate_by_euler_angles(ts, self, angles, inplace) ==
    Rebind(ts, self, Congruence(EulerMatrix(angles), ts[self].components), inplace)

IsOrthonormal(R) == MatMul(R, Transpose(R)) = Identity3

\* angles [theta_x, theta_y, theta_z], in quarter turns: a quarter turn
\* about z, a half turn about x, and one with all three axes turned
EulerAngles == {<<0, 0, 1>>, <<2, 0, 0>>, <<2, 2, 3>>}

\* orthonormal: x and y exchanged (a reflection), and z reversed
Swap == Mat(0, 1, 0, 1, 0, 0, 0, 0, 1)

Reflection == Mat(1, 0, 0, 0, 1, 0, 0, 0, -1)

\* not orthonormal: rotate_by_matrix accepts it without validation
Degenerate == Mat(0, 0, 0, 0, 0, 0, 0, 0, 0)

RotationMatrices == {Swap, Reflection, Degenerate}

(***************************************************************************)
(* The operations on StressTensor instances.                               *)
(***************************************************************************)
NoCall == [op |-> "none"]

NoRet == [kind |-> "none"]

NoRosette == [f |-> "none"]

Init ==
    /\ tensors = <<>>
    /\ data = <<>>
    /\ call = NoCall
    /\ ret = NoRet
    /\ clock = 1
    /\ rin = NoRosette
    /\ rout = NoRosette

\* StressTensor(components)
Construct(components) ==
    LET new == StressTensor_init(components)
    IN  /\ call' = [op |-> "StressTensor", components |-> components]
        /\ IF new.ok
           THEN /\ Len(tensors) < MaxTensors
                /\ tensors' = Append(tensors, [shape |-> new.shape,
                                               components |-> new.components])
                /\ ret' = Instance(Len(tensors) + 1)
           ELSE /\ tensors' = tensors
                /\ ret' = Raised(new.exc)
        /\ UNCHANGED <<data, clock, rin, rout>>

\* self.rotate_by_matrix(rotation_matrix, inplace); on components that are
\* not 3 x 3 the matrix product raises ValueError
RotateByMatrix(self, rotation_matrix, inplace) ==
    /\ self \in 1..Len(tensors)
    /\ call' = [op |-> "rotate_by_matrix", self |-> self,
                R |-> rotation_matrix, inplace |-> inplace]
    /\ IF tensors[self].shape = <<3, 3>>
       THEN LET out == rotate_by_matrix(tensors, self, rotation_matrix, inplace)
            IN  /\ inplace \/ Len(tensors) < MaxTensors
                /\ tensors' = out.tensors
                /\ ret' = out.ret
       ELSE /\ tensors' = tensors
            /\ ret' = Raised("ValueError")
    /\ UNCHANGED <<data, clock, rin, rout>>

\* a slip: the series shares the array of the tensor it was given, and the
\* rotation in place writes into that array
RotateByEulerAnglesShared(self, angles, inplace) ==
    /\ self \in 1..Len(tensors)
    /\ call' = [op |-> "rotate_by_euler_angles", self |-> self,
                R |-> EulerMatrix(angles), inplace |-> inplace]
    /\ IF tensors[self].shape = <<3, 3>>
       THEN LET out == rotate_by_euler_angles(tensors, self, angles, inplace)
                vector(s) == [xx |-> s[1][1], yy |-> s[2][2], zz |-> s[3][3],
                              xy |-> s[1][2], yz |-> s[2][3], xz |-> s[1][3]]
            IN  /\ inplace \/ Len(tensors) < MaxTensors
                /\ tensors' = out.tensors
                /\ ret' = out.ret
                /\ data' = IF inplace
                           THEN [k \in 1..Len(data) |->
                                   IF data[k].row = vector(tensors[self].components)
                                   THEN [data[k] EXCEPT
                                           !.row = vector(out.tensors[self].components)]
                                   ELSE data[k]]
                           ELSE data
       ELSE /\ tensors' = tensors
            /\ ret' = Raised("ValueError")
            /\ data' = data
    /\ UNCHANGED <<clock, rin, rout>>

\* self.rotate_by_euler_angles(angles, inplace)
RotateByEulerAngles(self, angles, inplace) ==
    /\ self \in 1..Len(tensors)
    /\ call' = [op |-> "rotate_by_euler_angles", self |-> self,
                R |-> EulerMatrix(angles), inplace |-> inplace]
    /\ IF tensors[self].shape = <<3, 3>>
       THEN LET out == rotate_by_euler_angles(tensors, self, angles, inplace)
            IN  /\ inplace \/ Len(tensors) < MaxTensors
                /\ tensors' = out.tensors
                /\ ret' = out.ret
       ELSE /\ tensors' = tensors
            /\ ret' = Raised("ValueError")
    /\ UNCHANGED <<data, clock, rin, rout>>

NextTensor ==
    \/ \E c \in TensorInputs : Construct(c)
    \/ \E self \in 1..MaxTensors : \E R \in RotationMatrices :
           \E inplace \in BOOLEAN : RotateByMatrix(self, R, inplace)
    \/ \E self \in 1..MaxTensors : \E a \in EulerAngles :
           \E inplace \in BOOLEAN : RotateByEulerAngles(self, a, inplace)

SpecTensor == Init /\ [][NextTensor]_vars

(***************************************************************************)
(* TimeSeriesStressTensor.  data is the DataFrame: its rows in stored      *)
(* order, each the index value (timestamp) and the six named columns.      *)
(* `data.loc[timestamp] = vector` overwrites the row of a timestamp that   *)
(* is in the index and otherwise appends a row at the end.                 *)
(***************************************************************************)
Columns == {"xx", "yy", "zz", "xy", "yz", "xz"}

Timestamps == 1..MaxTs

\* timestamp=None, the default
NoTimestamp == 0

Index(d) == {d[k].timestamp : k \in 1..Len(d)}

Position(d, timestamp) == CHOOSE k \in 1..Len(d) : d[k].timestamp = timestamp

\* a list assigned to a row fills the columns in their order
Row(vector) ==
    [xx |-> vector[1], yy |-> vector[2], zz |-> vector[3],
     xy |-> vector[4], yz |-> vector[5], xz |-> vector[6]]

\* a slip: every add appends a row
add_tensor_append(d, comps, timestamp) ==
    Append(d, [timestamp |-> timestamp,
               row |-> Row(<<comps[1][1], comps[2][2], comps[3][3],
                             comps[1][2], comps[2][3], comps[1][3]>>)])

\* add_tensor on the rows d, for the tensor components comps
add_tensor(d, comps, timestamp) ==
    LET vector == <<comps[1][1], comps[2][2], comps[3][3],
                    comps[1][2], comps[2][3], comps[1][3]>>
    IN  IF timestamp \in Index(d)
        THEN [d EXCEPT ![Position(d, timestamp)].row = Row(vector)]
        ELSE Append(d, [timestamp |-> timestamp, row |-> Row(vector)])

\* a slip: a missing timestamp answered with a zero tensor
get_tensor_default(d, timestamp) ==
    IF timestamp \notin Index(d)
    THEN StressTensor_init(Arg("list", <<6>>, <<0, 0, 0, 0, 0, 0>>))
    ELSE LET row == d[Position(d, timestamp)].row
         IN  StressTensor_init(
                 Arg("list", <<6>>, <<row.xx, row.yy, row.zz, row.xy, row.yz, row.xz>>))

get_tensor(d, timestamp) ==
    IF timestamp \notin Index(d)
    THEN Raise("KeyError")
    ELSE LET row == d[Position(d, timestamp)].row
         IN  StressTensor_init(
                 Arg("list", <<6>>, <<row.xx, row.yy, row.zz, row.xy, row.yz, row.xz>>))

\* the Series self.data[component]: (timestamp, value) in stored order
Column(d, component) ==
    [k \in 1..Len(d) |-> <<d[k].timestamp, d[k].row[component]>>]

\* a variant: the column of the table sorted by its index
get_time_series_sorted(d, component) ==
    IF component \notin Columns
    THEN Raise("ValueError")
    ELSE LET rank(t) == Cardinality({u \in Index(d) : u <= t})
             nth(k) == CHOOSE t \in Index(d) : rank(t) = k
         IN  [ok |-> TRUE,
              value |-> [k \in 1..Len(d) |->
                            <<nth(k), d[Position(d, nth(k))].row[component]>>]]

get_time_series(d, component) ==
    IF component \notin Columns
    THEN Raise("ValueError")
    ELSE [ok |-> TRUE, value |-> Column(d, component)]

\* self.add_tensor(tensor, timestamp); datetime.now() is a time not
\* before the one it returned last
AddTensor(tensor, timestamp, now) ==
    /\ tensor \in 1..Len(tensors)
    /\ tensors[tensor].shape = <<3, 3>>
    /\ now >= clock
    /\ timestamp # NoTimestamp => now = clock
    /\ LET at == IF timestamp = NoTimestamp THEN now ELSE timestamp
       IN  /\ data' = add_tensor(data, tensors[tensor].components, at)
           /\ call' = [op |-> "add_tensor", tensor |-> tensor,
                       timestamp |-> timestamp, at |-> at]
    /\ clock' = now
    /\ ret' = [kind |-> "None"]
    /\ UNCHANGED <<tensors, rin, rout>>

\* self.get_tensor(timestamp)
GetTensor(timestamp) ==
    LET new == get_tensor(data, timestamp)
    IN  /\ call' = [op |-> "get_tensor", timestamp |-> timestamp]
        /\ IF new.ok
           THEN /\ Len(tensors) < MaxTensors
                /\ tensors' = Append(tensors, [shape |-> new.shape,
                                               components |-> new.components])
                /\ ret' = Instance(Len(tensors) + 1)
           ELSE /\ tensors' = tensors
                /\ ret' = Raised(new.exc)
        /\ UNCHANGED <<data, clock, rin, rout>>

\* self.get_time_series(component)
GetTimeSeries(component) ==
    LET series == get_time_series(data, component)
    IN  /\ call' = [op |-> "get_time_series", component |-> component]
        /\ ret' = IF series.ok
                  THEN [kind |-> "Series", value |-> series.value]
                  ELSE Raised(series.exc)
        /\ UNCHANGED <<tensors, data, clock, rin, rout>>

NextSeries ==
    \/ \E c \in SeriesInputs : Construct(c)
    \/ \E t \in 1..MaxTensors : \E timestamp \in Timestamps \cup {NoTimestamp} :
           \E now \in Timestamps : AddTensor(t, timestamp, now)
    \/ \E timestamp \in Timestamps : GetTensor(timestamp)
    \/ \E component \in Columns \cup {"timestamp"} : GetTimeSeries(component)

SpecSeries == Init /\ [][NextSeries]_vars

(***************************************************************************)
(* Exact numbers for the rosette functions.  A rational is <<n, d>> in     *)
(* lowest terms with d > 0.  Strains and stresses are given in units of    *)
(* 10^-3 (the functions are homogeneous of degree one in them).            *)
(***************************************************************************)
RECURSIVE Gcd(_, _)
Gcd(a, b) == IF b = 0 THEN a ELSE Gcd(b, a % b)

Rat(n, d) ==
    LET g == Gcd(Abs(n), Abs(d))
    IN  IF d < 0 THEN <<(-n) \div g, (-d) \div g>> ELSE <<n \div g, d \div g>>

Whole(n) == <<n, 1>>

\* the denominators are reduced by their common divisor before the products
RAdd(p, q) ==
    LET g == Gcd(p[2], q[2])
    IN  Rat(p[1] * (q[2] \div g) + q[1] * (p[2] \div g), (p[2] \div g) * q[2])

RNeg(p) == <<-p[1], p[2]>>

RSub(p, q) == RAdd(p, RNeg(q))

RMul(p, q) ==
    LET g == Max2(1, Gcd(Abs(p[1]), q[2]))
        h == Max2(1, Gcd(Abs(q[1]), p[2]))
    IN  Rat((p[1] \div g) * (q[1] \div h), (p[2] \div h) * (q[2] \div g))

RDiv(p, q) == Rat(p[1] * q[2], p[2] * q[1])

RSign(p) == Sign(p[1])

RLess(p, q) == p[1] * q[2] < q[1] * p[2]

RAbs(p) == <<Abs(p[1]), p[2]>>

\* the largest k in lo..hi with k * k <= n
RECURSIVE Isqrt(_, _, _)
Isqrt(n, lo, hi) ==
    IF lo >= hi THEN lo
    ELSE LET mid == (lo + hi + 1) \div 2
         IN  IF mid * mid <= n THEN Isqrt(n, mid, hi) ELSE Isqrt(n, lo, mid - 1)

Root(n) == Isqrt(n, 0, IF n < 40000 THEN n ELSE 40000)

IsSquare(p) == Root(p[1]) * Root(p[1]) = p[1] /\ Root(p[2]) * Root(p[2]) = p[2]

\* the real number a + s * sqrt(b), s in {-1, 1}, b >= 0, in a normal form:
\* two of them are equal as real numbers exactly if they are equal as records
Quad(a, s, b) ==
    IF IsSquare(b)
    THEN [a |-> RAdd(a, RMul(Whole(s), <<Root(b[1]), Root(b[2])>>)),
          s |-> 0, b |-> Whole(0)]
    ELSE [a |-> a, s |-> s, b |-> b]

\* np.sqrt(b)
Sqrt(b) == Quad(Whole(0), 1, b)

(***************************************************************************)
(* Angles.  An angle the functions return is known by the interval of      *)
(* eighths of pi it lies in: [lo, hi] with lo = hi for the exact value     *)
(* lo * pi/8 and hi = lo + 1 or lo + 2 for the open interval between.      *)
(***************************************************************************)
\* np.arctan2(y, x), in quarters of pi
Quarter(y, x) ==
    LET ay == RAbs(y)
        ax == RAbs(x)
        \* the angle of (|x|, |y|) in the first quadrant: <<lo, hi>>
        first == IF RSign(y) = 0 THEN <<0, 0>>
                 ELSE IF RSign(x) = 0 THEN <<2, 2>>
                 ELSE IF RLess(ay, ax) THEN <<0, 1>>
                 ELSE IF ay = ax THEN <<1, 1>>
                 ELSE <<1, 2>>
        \* mirrored into the upper half plane
        upper == IF RSign(x) >= 0 THEN first ELSE <<4 - first[2], 4 - first[1]>>
    IN  IF RSign(y) >= 0 THEN upper ELSE <<-upper[2], -upper[1]>>

arctan2(y, x) == [lo |-> 2 * Quarter(y, x)[1], hi |-> 2 * Quarter(y, x)[2]]

\* a slip: the factor 0.5 forgotten
WholeAngle(angle) == angle

\* 0.5 * angle
HalfAngle(angle) == [lo |-> angle.lo \div 2, hi |-> angle.hi \div 2]

(***************************************************************************)
(* The rosette functions (strain_gauge_rosette_0_45_90.py), on scalars.    *)
(***************************************************************************)
Two == Whole(2)

\* a slip: the two signs of the radius exchanged
principal_stresses_swapped(sx, sy, txy) ==
    LET avg == RDiv(RAdd(sx, sy), Two)
        radius2 == RAdd(RMul(RDiv(RSub(sx, sy), Two), RDiv(RSub(sx, sy), Two)),
                        RMul(txy, txy))
    IN  [principal1 |-> Quad(avg, -1, radius2),
         principal2 |-> Quad(avg, 1, radius2),
         max_shear |-> Sqrt(radius2),
         principal_angle |-> HalfAngle(arctan2(txy, RSub(sx, sy)))]

principal_stresses(sx, sy, txy) ==
    LET avg == RDiv(RAdd(sx, sy), Two)
        radius2 == RAdd(RMul(RDiv(RSub(sx, sy), Two), RDiv(RSub(sx, sy), Two)),
                        RMul(txy, txy))
    IN  [principal1 |-> Quad(avg, 1, radius2),
         principal2 |-> Quad(avg, -1, radius2),
         max_shear |-> Sqrt(radius2),
         principal_angle |-> HalfAngle(arctan2(txy, RSub(sx, sy)))]

principal_strains(ex, ey, gamma_xy) ==
    LET avg == RDiv(RAdd(ex, ey), Two)
        radius2 == RAdd(RMul(RDiv(RSub(ex, ey), Two), RDiv(RSub(ex, ey), Two)),
                        RMul(RDiv(gamma_xy, Two), RDiv(gamma_xy, Two)))
    IN  [principal1 |-> Quad(avg, 1, radius2),
         principal2 |-> Quad(avg, -1, radius2),
         \* radius * 2 = sqrt(4 * radius^2)
         max_shear |-> Sqrt(RMul(Whole(4), radius2)),
         principal_angle |-> HalfAngle(arctan2(gamma_xy, RSub(ex, ey)))]

strain_calcs(e0, e45, e90) ==
    LET ex == e0
        ey == e90
        gamma_xy == RMul(Two, RSub(e45, RDiv(RAdd(e0, e90), Two)))
        prin_data == principal_strains(ex, ey, gamma_xy)
    IN  [ex |-> ex, ey |-> ey, gamma_xy |-> gamma_xy,
         principal1 |-> prin_data.principal1,
         principal2 |-> prin_data.principal2,
         max_shear |-> prin_data.max_shear,
         principal_angle |-> prin_data.principal_angle]

stress_calcs(e0, e45, e90, E, nu) ==
    LET strains == strain_calcs(e0, e45, e90)
        ex == strains.ex
        ey == strains.ey
        gamma_xy == strains.gamma_xy
        one == Whole(1)
        sx == RMul(RDiv(E, RSub(one, RMul(nu, nu))), RAdd(ex, RMul(nu, ey)))
        sy == RMul(RDiv(E, RSub(one, RMul(nu, nu))), RAdd(ey, RMul(nu, ex)))
        txy == RMul(RDiv(E, RMul(Two, RAdd(one, nu))), gamma_xy)
        prin_data == principal_stresses(sx, sy, txy)
    IN  [sx |-> sx, sy |-> sy, txy |-> txy,
         principal1 |-> prin_data.principal1,
         principal2 |-> prin_data.principal2,
         max_shear |-> prin_data.max_shear,
         principal_angle |-> prin_data.principal_angle]

\* the rotation angles tried, each by <<cos(2 * angle), sin(2 * angle)>>:
\* 0, pi/4, pi/2, -pi/4, and three with cosine and sine 3/5 and 4/5
RotationAngles ==
    << <<Whole(1), Whole(0)>>, <<Whole(0), Whole(1)>>, <<Whole(-1), Whole(0)>>,
       <<Whole(0), Whole(-1)>>, <<Rat(3, 5), Rat(4, 5)>>,
       <<Rat(-4, 5), Rat(3, 5)>>, <<Rat(3, 5), Rat(-4, 5)>> >>

\* np.cos(2 * angle), np.sin(2 * angle); angle is an index of RotationAngles
Cos2(angle) == RotationAngles[angle][1]

Sin2(angle) == RotationAngles[angle][2]

\* a slip: the stress form of the shear transformation used for strain
rotate_strain_field_as_stress(ex, ey, gamma_xy, angle) ==
    LET half == RDiv(RSub(ex, ey), Two)
        mean == RDiv(RAdd(ex, ey), Two)
        ey_prime == RSub(RSub(mean, RMul(half, Cos2(angle))),
                         RMul(RDiv(gamma_xy, Two), Sin2(angle)))
        ex_prime == RAdd(RAdd(mean, RMul(half, Cos2(angle))),
                         RMul(RDiv(gamma_xy, Two), Sin2(angle)))
        gamma_xy_prime == RAdd(RMul(RNeg(half), Sin2(angle)),
                               RMul(gamma_xy, Cos2(angle)))
        prin_data == principal_strains(ex_prime, ey_prime, gamma_xy_prime)
    IN  [x_prime |-> ex_prime, y_prime |-> ey_prime, shear_prime |-> gamma_xy_prime,
         principal1 |-> prin_data.principal1,
         principal2 |-> prin_data.principal2,
         max_shear |-> prin_data.max_shear,
         principal_angle |-> prin_data.principal_angle]

rotate_strain_field(ex, ey, gamma_xy, angle) ==
    LET half == RDiv(RSub(ex, ey), Two)
        mean == RDiv(RAdd(ex, ey), Two)
        ey_prime == RSub(RSub(mean, RMul(half, Cos2(angle))),
                         RMul(RDiv(gamma_xy, Two), Sin2(angle)))
        ex_prime == RAdd(RAdd(mean, RMul(half, Cos2(angle))),
                         RMul(RDiv(gamma_xy, Two), Sin2(angle)))
        gamma_xy_prime == RAdd(RMul(RNeg(RSub(ex, ey)), Sin2(angle)),
                               RMul(gamma_xy, Cos2(angle)))
        prin_data == principal_strains(ex_prime, ey_prime, gamma_xy_prime)
    IN  [x_prime |-> ex_prime, y_prime |-> ey_prime, shear_prime |-> gamma_xy_prime,
         principal1 |-> prin_data.principal1,
         principal2 |-> prin_data.principal2,
         max_shear |-> prin_data.max_shear,
         principal_angle |-> prin_data.principal_angle]

rotate_stress_field(sx, sy, txy, angle) ==
    LET half == RDiv(RSub(sx, sy), Two)
        mean == RDiv(RAdd(sx, sy), Two)
        sx_prime == RAdd(RAdd(mean, RMul(half, Cos2(angle))),
                         RMul(txy, Sin2(angle)))
        sy_prime == RSub(RSub(mean, RMul(half, Cos2(angle))),
                         RMul(txy, Sin2(angle)))
        txy_prime == RAdd(RMul(RNeg(half), Sin2(angle)),
                          RMul(txy, Cos2(angle)))
        prin_data == principal_stresses(sx_prime, sy_prime, txy_prime)
    IN  [x_prime |-> sx_prime, y_prime |-> sy_prime, shear_prime |-> txy_prime,
         principal1 |-> prin_data.principal1,
         principal2 |-> prin_data.principal2,
         max_shear |-> prin_data.max_shear,
         principal_angle |-> prin_data.principal_angle]

(***************************************************************************)
(* The rosette functions are pure: a behaviour draws one call with its     *)
(* arguments and applies the function.                                     *)
(***************************************************************************)
Readings == {Rat(n, 2) : n \in -MaxHalf..MaxHalf}

\* Young's modulus (in GPa) and Poisson's ratio
Moduli == {Whole(200)}

Ratios == {Rat(3, 10), Whole(0)}

Pending == [f |-> "pending"]

CallOf(f, args) == [f |-> f, args |-> args]

InitRosette ==
    /\ tensors = <<>>
    /\ data = <<>>
    /\ call = NoCall
    /\ ret = NoRet
    /\ clock = 1
    /\ rout = Pending
    /\ \E a \in Readings : \E b \in Readings : \E c \in Readings :
          \/ rin = CallOf("principal_strains", <<a, b, c>>)
          \/ rin = CallOf("principal_stresses", <<a, b, c>>)
          \/ rin = CallOf("strain_calcs", <<a, b, c>>)
          \/ \E E \in Moduli : \E nu \in Ratios :
                 rin = CallOf("stress_calcs", <<a, b, c, E, nu>>)
          \/ \E angle \in 1..Len(RotationAngles) :
                 \/ rin = CallOf("rotate_strain_field", <<a, b, c, angle>>)
                 \/ rin = CallOf("rotate_stress_field", <<a, b, c, angle>>)

PrincipalStrains ==
    /\ rin.f = "principal_strains"
    /\ rout = Pending
    /\ rout' = principal_strains(rin.args[1], rin.args[2], rin.args[3])
    /\ UNCHANGED <<tensors, data, call, ret, clock, rin>>

PrincipalStresses ==
    /\ rin.f = "principal_stresses"
    /\ rout = Pending
    /\ rout' = principal_stresses(rin.args[1], rin.args[2], rin.args[3])
    /\ UNCHANGED <<tensors, data, call, ret, clock, rin>>

StrainCalcs ==
    /\ rin.f = "strain_calcs"
    /\ rout = Pending
    /\ rout' = strain_calcs(rin.args[1], rin.args[2], rin.args[3])
    /\ UNCHANGED <<tensors, data, call, ret, clock, rin>>

StressCalcs ==
    /\ rin.f = "stress_calcs"
    /\ rout = Pending
    /\ rout' = stress_calcs(rin.args[1], rin.args[2], rin.args[3],
                          rin.args[4], rin.args[5])
    /\ UNCHANGED <<tensors, data, call, ret, clock, rin>>

RotateStrainField ==
    /\ rin.f = "rotate_strain_field"
    /\ rout = Pending
    /\ rout' = rotate_strain_field(rin.args[1], rin.args[2], rin.args[3],
                                 rin.args[4])
    /\ UNCHANGED <<tensors, data, call, ret, clock, rin>>

RotateStressField ==
    /\ rin.f = "rotate_stress_field"
    /\ rout = Pending
    /\ rout' = rotate_stress_field(rin.args[1], rin.args[2], rin.args[3],
                                 rin.args[4])
    /\ UNCHANGED <<tensors, data, call, ret, clock, rin>>

NextRosette ==
    \/ PrincipalStrains
    \/ PrincipalStresses
    \/ StrainCalcs
    \/ StressCalcs
    \/ RotateStrainField
    \/ RotateStressField

SpecRosette == InitRosette /\ [][NextRosette]_vars

(***************************************************************************)
(* Eigenvectors.  np.linalg.eigh returns the eigenvalues ascending and a   *)
(* matrix whose COLUMN k is a unit eigenvector of eigenvalue k; its sign   *)
(* is the solver's choice.  An entry c / sqrt(n) is kept as <<c, n>>.      *)
(* The eigenvalues are integers and differ from each other here.           *)
(***************************************************************************)
Wrap(i) == ((i - 1) % 3) + 1

Cofactor(A, i, j) ==
      A[Wrap(i + 1)][Wrap(j + 1)] * A[Wrap(i + 2)][Wrap(j + 2)]
    - A[Wrap(i + 1)][Wrap(j + 2)] * A[Wrap(i + 2)][Wrap(j + 1)]

\* the cofactors of A; for a symmetric A they are the adjugate
Adjugate(A) ==
    Mat(Cofactor(A, 1, 1), Cofactor(A, 1, 2), Cofactor(A, 1, 3),
        Cofactor(A, 2, 1), Cofactor(A, 2, 2), Cofactor(A, 2, 3),
        Cofactor(A, 3, 1), Cofactor(A, 3, 2), Cofactor(A, 3, 3))

Shifted(s, x) ==
    Mat(s[1][1] - x, s[1][2], s[1][3],
        s[2][1], s[2][2] - x, s[2][3],
        s[3][1], s[3][2], s[3][3] - x)

\* the integer vector d reduced by the common divisor of its entries, its
\* first entry that is not zero made positive
Primitive(d) ==
    LET g == Gcd(Gcd(Abs(d[1]), Abs(d[2])), Abs(d[3]))
        lead == IF d[1] # 0 THEN d[1] ELSE IF d[2] # 0 THEN d[2] ELSE d[3]
        sign == Sign(lead)
    IN  <<sign * (d[1] \div g), sign * (d[2] \div g), sign * (d[3] \div g)>>

\* a vector that spans the eigenspace of the simple eigenvalue x of the
\* symmetric s: a column of the adjugate of s - x I that is not zero
Direction(s, x) ==
    LET adj == Adjugate(Shifted(s, x))
        j == CHOOSE c \in Idx :
                 /\ adj[c] # <<0, 0, 0>>
                 /\ \A b \in 1..(c - 1) : adj[b] = <<0, 0, 0>>
    IN  Primitive(adj[j])

Norm2(d) == d[1] * d[1] + d[2] * d[2] + d[3] * d[3]

HasSimpleIntegerSpectrum(s) ==
    /\ HasIntegerSpectrum(s)
    /\ Cardinality(IntegerRoots(Lower(s))) = 3

\* the signs the solver may give the three eigenvectors
SolverSigns == {<<1, 1, 1>>, <<-1, 1, -1>>}

\* entry i of the unit vector along sign * d
Entry(d, sign, i) == IF d[i] = 0 THEN <<0, 1>> ELSE <<sign * d[i], Norm2(d)>>

\* np.linalg.eigh(s): eigenvectors[i][k] is entry i of eigenvector k
eigh(s, signs) ==
    LET lower == Lower(s)
        e == Ascending(lower, IntegerRoots(lower))
        d1 == Direction(lower, e[1])
        d2 == Direction(lower, e[2])
        d3 == Direction(lower, e[3])
        row(i) == <<Entry(d1, signs[1], i), Entry(d2, signs[2], i),
                    Entry(d3, signs[3], i)>>
    IN  [eigenvalues |-> e, eigenvectors |-> <<row(1), row(2), row(3)>>]

(***************************************************************************)
(* The history methods of TimeSeriesStressTensor: one entry per stored    *)
(* row, in stored order, computed from the tensor get_tensor rebuilds.     *)
(***************************************************************************)
Stored(d, k) == get_tensor(d, d[k].timestamp).components

\* list(principal_stress) + list(principal_vector): iterating the 3 x 3
\* array of eigenvectors gives its rows
get_principal_stress_history(d, signs) ==
    [k \in 1..Len(d) |->
        LET principal == eigh(Stored(d, k), signs)
            principal_stress == principal.eigenvalues
            principal_vector == principal.eigenvectors
        IN  [timestamp |-> d[k].timestamp,
             principal1 |-> principal_stress[1],
             principal2 |-> principal_stress[2],
             principal3 |-> principal_stress[3],
             vector1 |-> principal_vector[1],
             vector2 |-> principal_vector[2],
             vector3 |-> principal_vector[3]]]

get_von_mises_history(d) ==
    [k \in 1..Len(d) |-> <<d[k].timestamp, von_mises(Stored(d, k))>>]

get_signed_von_mises_history(d) ==
    [k \in 1..Len(d) |-> <<d[k].timestamp, signed_von_mises(Stored(d, k))>>]

get_tresca_history(d) ==
    [k \in 1..Len(d) |-> <<d[k].timestamp, tresca(Stored(d, k))>>]

get_signed_tresca_history(d) ==
    [k \in 1..Len(d) |-> <<d[k].timestamp, signed_tresca(Stored(d, k))>>]

\* principal axes along y, z, x: principal stresses 1, 2, 3
Permuted == <<3, 1, 2, 0, 0, 0>>

\* the arguments tried where the principal stress history is read; their
\* eigenvalues are integers that differ from each other
HistoryInputs == {Arg("list", <<6>>, Permuted), Arg("ndarray", <<6>>, Tensile)}

\* self.get_principal_stress_history()
GetPrincipalStressHistory(signs) ==
    /\ call' = [op |-> "get_principal_stress_history"]
    /\ ret' = [kind |-> "DataFrame",
               value |-> get_principal_stress_history(data, signs)]
    /\ UNCHANGED <<tensors, data, clock, rin, rout>>

NextHistory ==
    \/ \E c \in HistoryInputs : Construct(c)
    \/ \E t \in 1..MaxTensors : \E timestamp \in Timestamps :
           AddTensor(t, timestamp, clock)
    \/ \E signs \in SolverSigns : GetPrincipalStressHistory(signs)

SpecHistory == Init /\ [][NextHistory]_vars

\* self.get_von_mises_history()
GetVonMisesHistory ==
    /\ call' = [op |-> "get_von_mises_history"]
    /\ ret' = [kind |-> "Series", value |-> get_von_mises_history(data)]
    /\ UNCHANGED <<tensors, data, clock, rin, rout>>

\* self.get_signed_von_mises_history()
GetSignedVonMisesHistory ==
    /\ call' = [op |-> "get_signed_von_mises_history"]
    /\ ret' = [kind |-> "Series", value |-> get_signed_von_mises_history(data)]
    /\ UNCHANGED <<tensors, data, clock, rin, rout>>

\* self.get_tresca_history()
GetTrescaHistory ==
    /\ call' = [op |-> "get_tresca_history"]
    /\ ret' = [kind |-> "Series", value |-> get_tresca_history(data)]
    /\ UNCHANGED <<tensors, data, clock, rin, rout>>

\* self.get_signed_tresca_history()
GetSignedTrescaHistory ==
    /\ call' = [op |-> "get_signed_tresca_history"]
    /\ ret' = [kind |-> "Series", value |-> get_signed_tresca_history(data)]
    /\ UNCHANGED <<tensors, data, clock, rin, rout>>

\* the arguments tried where stored tensors are rotated afterwards
SnapshotInputs == {Arg("list", <<6>>, Permuted)}

\* a quarter turn about z
QuarterTurn == <<0, 0, 1>>

\* tensors are added to a series, read back, and rotated
NextSnapshot ==
    \/ \E c \in SnapshotInputs : Construct(c)
    \/ \E t \in 1..MaxTensors : \E timestamp \in 1..MaxStored :
           AddTensor(t, timestamp, clock)
    \/ \E timestamp \in 1..MaxStored : GetTensor(timestamp)
    \/ \E self \in 1..MaxTensors : \E inplace \in BOOLEAN :
           RotateByEulerAngles(self, QuarterTurn, inplace)
    \/ \E self \in 1..MaxTensors : RotateByMatrix(self, Swap, TRUE)
    \/ \E signs \in SolverSigns : GetPrincipalStressHistory(signs)
    \/ GetVonMisesHistory
    \/ GetSignedVonMisesHistory
    \/ GetTrescaHistory
    \/ GetSignedTrescaHistory

SpecSnapshot == Init /\ [][NextSnapshot]_vars

(***************************************************************************)
(* Properties of StressTensor.                                             *)
(***************************************************************************)
IsSymmetric(s) == \A i \in Idx : \A j \in Idx : s[i][j] = s[j][i]

IsRotation(c) == c.op \in {"rotate_by_matrix", "rotate_by_euler_angles"}

\* entry (i, j) of R . S . R^T, written out by indices
Sandwich(R, S, i, j) ==
    LET term(k, l) == R[i][k] * S[k][l] * R[j][l]
    IN    term(1, 1) + term(1, 2) + term(1, 3)
        + term(2, 1) + term(2, 2) + term(2, 3)
        + term(3, 1) + term(3, 2) + term(3, 3)

IsSandwich(new, R, S) ==
    \A i \in Idx : \A j \in Idx : new[i][j] = Sandwich(R, S, i, j)

\* C1: every tensor reached by a successful construction and any rotations
\* has symmetric components: components[i][j] = components[j][i].
C1_AlwaysSymmetric ==
    \A t \in 1..Len(tensors) : IsSymmetric(tensors[t].components)

\* C2: construction succeeds exactly for a list or array that is a
\* 6-element vector of scalars or a 3 x 3 matrix; a sequence of any other
\* shape raises ValueError, anything that is not a list or array (or has no
\* length) raises TypeError, and a failed construction leaves no instance.
IsSequence(c) == c.kind \in {"list", "ndarray"} /\ c.shape # <<>>

IsAccepted(c) == IsSequence(c) /\ c.shape \in {<<6>>, <<3, 3>>}

C2_ConstructionContract ==
    [][call'.op = "StressTensor" =>
         LET c == call'.components
         IN  /\ IsAccepted(c) <=> ret'.kind = "instance"
             /\ IsSequence(c) /\ ~IsAccepted(c) => ret' = Raised("ValueError")
             /\ ~IsSequence(c) => ret' = Raised("TypeError")
             /\ ret'.kind = "raise" => tensors' = tensors
             /\ ret'.kind = "instance" =>
                    /\ tensors' = Append(tensors, tensors'[ret'.id])
                    /\ tensors'[ret'.id].shape = <<3, 3>>]_vars

\* C7: with inplace=True a rotation replaces the receiver's components by
\* R.s.R^T and returns the receiver itself, touching no other instance; with
\* inplace=False it returns a new instance holding R.s.R^T and leaves the
\* receiver (and every other instance) as it was.
C7_InplaceContract ==
    [][IsRotation(call') /\ ret'.kind = "instance" =>
         LET self == call'.self
             old == tensors[self].components
         IN  IF call'.inplace
             THEN /\ ret'.id = self
                  /\ Len(tensors') = Len(tensors)
                  /\ IsSandwich(tensors'[self].components, call'.R, old)
                  /\ \A t \in 1..Len(tensors) : t # self => tensors'[t] = tensors[t]
             ELSE /\ ret'.id = Len(tensors) + 1
                  /\ Len(tensors') = Len(tensors) + 1
                  /\ IsSandwich(tensors'[ret'.id].components, call'.R, old)
                  /\ \A t \in 1..Len(tensors) : tensors'[t] = tensors[t]]_vars

\* a copying rotation has returned a second instance that differs from the
\* receiver, which still holds what it was constructed from
C7_Witness ==
    /\ IsRotation(call) /\ ~call.inplace /\ ret.kind = "instance"
    /\ ret.id # call.self
    /\ tensors[ret.id].components # tensors[call.self].components
    /\ tensors[call.self].components = Mat(2, 1, 0, 1, 2, 0, 0, 0, 5)

\* C8: rotating a symmetric tensor by an orthonormal matrix leaves its
\* principal stresses (the characteristic polynomial, and the eigenvalues
\* themselves where they are integers), von_mises, tresca, signed_von_mises
\* and signed_tresca unchanged.
C8_RotationInvariance ==
    [][/\ IsRotation(call') /\ ret'.kind = "instance"
       /\ IsOrthonormal(call'.R)
       /\ IsSymmetric(tensors[call'.self].components)
       =>
         LET old == tensors[call'.self].components
             new == tensors'[ret'.id].components
         IN  /\ Invariants(Lower(new)) = Invariants(Lower(old))
             /\ von_mises(new) = von_mises(old)
             /\ signed_von_mises(new) = signed_von_mises(old)
             /\ HasIntegerSpectrum(old) =>
                    /\ HasIntegerSpectrum(new)
                    /\ StressTensor_principal_stresses(new) = StressTensor_principal_stresses(old)
                    /\ tresca(new) = tresca(old)
                    /\ signed_tresca(new) = signed_tresca(old)]_vars

\* an orthonormal rotation has turned a compressive tensor into a different
\* one with the principal stresses -5, -3, -1
C8_Witness ==
    /\ IsRotation(call) /\ ~call.inplace /\ ret.kind = "instance"
    /\ IsOrthonormal(call.R)
    /\ IsSymmetric(tensors[call.self].components)
    /\ tensors[ret.id].components # tensors[call.self].components
    /\ StressTensor_principal_stresses(tensors[ret.id].components) = <<-5, -3, -1>>
    /\ signed_tresca(tensors[ret.id].components) = -4

(***************************************************************************)
(* Properties of TimeSeriesStressTensor.                                   *)
(***************************************************************************)
\* C3: after add_tensor(t, ts), and after adds at other timestamps,
\* get_tensor(ts).components equals t.components in all nine entries.
C3_RoundTrip ==
    [][call'.op = "add_tensor" =>
         /\ get_tensor(data', call'.at).ok
         /\ get_tensor(data', call'.at).components
                = tensors[call'.tensor].components
         /\ \A ts \in Index(data) \ {call'.at} :
                get_tensor(data', ts) = get_tensor(data, ts)]_vars

\* C4: the series holds one row per distinct timestamp added; the row of a
\* timestamp is the six-vector (xx, yy, zz, xy, yz, xz) of the tensor added
\* there last; an add at a stored timestamp overwrites that row and changes
\* no other row and not the number of rows.
OneRowPerTimestamp ==
    \A j \in 1..Len(data) : \A k \in 1..Len(data) :
        data[j].timestamp = data[k].timestamp => j = k

C4_AddTensor ==
    /\ []OneRowPerTimestamp
    /\ [][call'.op = "add_tensor" /\ call'.timestamp # NoTimestamp =>
            LET ts == call'.timestamp
                s == tensors[call'.tensor].components
                added == [xx |-> s[1][1], yy |-> s[2][2], zz |-> s[3][3],
                          xy |-> s[1][2], yz |-> s[2][3], xz |-> s[1][3]]
            IN  /\ Index(data') = Index(data) \cup {ts}
                /\ data'[Position(data', ts)].row = added
                /\ \A k \in 1..Len(data) :
                       data[k].timestamp # ts => data'[k] = data[k]
                /\ ts \in Index(data) => Len(data') = Len(data)
                /\ ts \notin Index(data) => Len(data') = Len(data) + 1]_vars

\* the last add went to the timestamp of the first of two rows, which it
\* overwrote with the six-vector of another tensor than the second row's
C4_Witness ==
    /\ call.op = "add_tensor" /\ call.timestamp # NoTimestamp
    /\ Len(data) = 2
    /\ data[1].timestamp = call.timestamp
    /\ data[1].row = Row(Distinct)
    /\ data[2].row # data[1].row

\* C5: get_time_series(component) returns the stored values ordered by
\* ascending timestamp, whatever the order of insertion.
IsAscending(series) ==
    \A j \in 1..Len(series) : \A k \in 1..Len(series) :
        j < k => series[j][1] < series[k][1]

C5_TimestampOrder ==
    call.op = "get_time_series" /\ ret.kind = "Series" => IsAscending(ret.value)

\* C5 as amended: the values come in the stored row order.  An add at a new
\* timestamp puts its value last, an add at a stored timestamp replaces the
\* value where it stands; the series stays ascending only while each new
\* timestamp is later than all stored ones.
Stamps(d) == [k \in 1..Len(d) |-> <<d[k].timestamp>>]

C5_StoredOrder ==
    /\ [](call.op = "get_time_series" /\ ret.kind = "Series" =>
            /\ Len(ret.value) = Len(data)
            /\ \A k \in 1..Len(data) :
                   ret.value[k] = <<data[k].timestamp, data[k].row[call.component]>>)
    /\ [][call'.op = "add_tensor" =>
            LET ts == call'.at
            IN  /\ ts \notin Index(data) => Stamps(data') = Append(Stamps(data), <<ts>>)
                /\ ts \in Index(data) => Stamps(data') = Stamps(data)
                /\ (IsAscending(Stamps(data)) /\ \A t \in Index(data) : t <= ts)
                       => IsAscending(Stamps(data'))]_vars

\* a series was read whose rows were inserted out of timestamp order
C5_Witness ==
    /\ call.op = "get_time_series" /\ ret.kind = "Series"
    /\ Len(ret.value) = 2
    /\ ret.value[1][1] > ret.value[2][1]
    /\ ret.value[1][2] # ret.value[2][2]

\* C6: get_tensor(ts) raises KeyError exactly when ts is not stored (rows
\* are never removed, so: was never added); the failing call returns no
\* tensor, creates none, and leaves the rows as they were.
C6_KeyError ==
    [][/\ Index(data) \subseteq Index(data')
       /\ call'.op = "get_tensor" =>
            /\ ret' = Raised("KeyError") <=> call'.timestamp \notin Index(data)
            /\ ret'.kind \in {"raise", "instance"}
            /\ ret'.kind = "raise" => tensors' = tensors
            /\ data' = data]_vars

\* a lookup failed on a series that holds a row at another timestamp
C6_Witness ==
    /\ call.op = "get_tensor" /\ ret = Raised("KeyError")
    /\ Len(data) = 1
    /\ call.timestamp \notin Index(data)

(***************************************************************************)
(* Properties of the rosette functions.                                    *)
(***************************************************************************)
Returned(f) == rin.f = f /\ rout # Pending

\* C9: the principal1, principal2 and max_shear that rotate_strain_field
\* returns are those of principal_strains on the components before the
\* rotation; likewise rotate_stress_field and principal_stresses.
C9_FrameIndependent ==
    /\ Returned("rotate_strain_field") =>
           LET p == principal_strains(rin.args[1], rin.args[2], rin.args[3])
           IN  /\ rout.principal1 = p.principal1
               /\ rout.principal2 = p.principal2
               /\ rout.max_shear = p.max_shear
    /\ Returned("rotate_stress_field") =>
           LET p == principal_stresses(rin.args[1], rin.args[2], rin.args[3])
           IN  /\ rout.principal1 = p.principal1
               /\ rout.principal2 = p.principal2
               /\ rout.max_shear = p.max_shear

\* a strain field with shear was turned by an angle that is no multiple of
\* pi/4, its components changed, and its principal strains are irrational
C9_Witness ==
    /\ Returned("rotate_strain_field")
    /\ rin.args[4] = 5
    /\ rin.args[3] # Whole(0)
    /\ rout.x_prime # rin.args[1]
    /\ rout.shear_prime # rin.args[3]
    /\ rout.principal1.s = 1

\* C10: the principal_angle of principal_strains and principal_stresses
\* lies in (-pi/4, pi/4], and strain_calcs(0.001, 0.0015, 0.002) returns
\* principal_angle = pi/4.
HasAngle ==
    rout # Pending /\ rin.f \in {"principal_strains", "principal_stresses",
                                  "strain_calcs", "stress_calcs"}

RosetteExample == CallOf("strain_calcs", <<Whole(1), Rat(3, 2), Whole(2)>>)

C10_QuarterRange ==
    /\ HasAngle =>
           /\ -2 <= rout.principal_angle.lo
           /\ rout.principal_angle.hi <= 2
           /\ rout.principal_angle # [lo |-> -2, hi |-> -2]
    /\ rin = RosetteExample /\ rout # Pending =>
           rout.principal_angle = [lo |-> 2, hi |-> 2]

\* C10 as amended: the principal_angle lies in (-pi/2, pi/2], and for the
\* rosette reading it is pi/2, with ex = 0.001, ey = 0.002, gamma_xy = 0,
\* principal1 = 0.002, principal2 = 0.001 and max_shear = 0.001.
C10_HalfRange ==
    /\ HasAngle =>
           /\ -4 <= rout.principal_angle.lo
           /\ rout.principal_angle.hi <= 4
           /\ rout.principal_angle # [lo |-> -4, hi |-> -4]
    /\ rin = RosetteExample /\ rout # Pending =>
           /\ rout.principal_angle = [lo |-> 4, hi |-> 4]
           /\ rout.ex = Whole(1) /\ rout.ey = Whole(2) /\ rout.gamma_xy = Whole(0)
           /\ rout.principal1 = Quad(Whole(2), 1, Whole(0))
           /\ rout.principal2 = Quad(Whole(1), 1, Whole(0))
           /\ rout.max_shear = Quad(Whole(1), 1, Whole(0))

\* strain_calcs has returned for the rosette reading
C10_Witness ==
    /\ rin = RosetteExample
    /\ rout # Pending
    /\ rout.principal_angle.lo = 4

\* C11: every rosette function returns principal1 >= principal2, with
\* principal1 - principal2 = 2 * radius and radius >= 0, where max_shear is
\* 2 * radius for strain and radius for stress.
IsStrain == rin.f \in {"principal_strains", "strain_calcs", "rotate_strain_field"}

\* the half of the real number q
HalfOf(q) == [a |-> RDiv(q.a, Two), s |-> q.s, b |-> RDiv(q.b, Whole(4))]

C11_Ordering ==
    rout # Pending =>
        LET radius == IF IsStrain THEN HalfOf(rout.max_shear) ELSE rout.max_shear
            p1 == rout.principal1
            p2 == rout.principal2
        IN  \* radius = r + s * sqrt(b) >= 0
            /\ RSign(radius.a) >= 0 /\ radius.s >= 0
            \* principal1 = mid + radius, principal2 = mid - radius
            /\ RSub(p1.a, p2.a) = RMul(Two, radius.a)
            /\ p1.s = radius.s /\ p2.s = -radius.s
            /\ p1.b = radius.b /\ p2.b = radius.b

\* stress_calcs has returned principal stresses that differ by twice an
\* irrational radius
C11_Witness ==
    /\ Returned("stress_calcs")
    /\ rout.principal1.s = 1 /\ rout.principal2.s = -1
    /\ rout.max_shear.s = 1
    /\ rout.principal1.b = rout.max_shear.b

(***************************************************************************)
(* Properties of the history methods.                                      *)
(***************************************************************************)
\* the symmetric matrix of the six stored values of a row
StoredMatrix(row) ==
    Mat(row.xx, row.xy, row.xz,
        row.xy, row.yy, row.yz,
        row.xz, row.yz, row.zz)

\* n = Outer(n)^2 * Core(n) with Core(n) free of squares
Outer(n) ==
    CHOOSE f \in 1..n : /\ n % (f * f) = 0
                        /\ \A g \in (f + 1)..n : n % (g * g) # 0

Core(n) == n \div (Outer(n) * Outer(n))

\* the entry c / sqrt(n) is Coef * sqrt(Core(n))
Coef(e) == Rat(e[1], Outer(e[2]) * Core(e[2]))

Part(e, m) == IF Core(e[2]) = m THEN Coef(e) ELSE Whole(0)

\* s . v = x * v for the vector v (not zero) of entries c / sqrt(n): the
\* square roots of different square-free numbers are independent, so the
\* equation holds for the part of each of them
IsEigenpair(s, x, v) ==
    /\ \E j \in Idx : v[j][1] # 0
    /\ \A i \in Idx : \A m \in {Core(v[j][2]) : j \in Idx} :
           LET term(j) == RMul(Whole(s[i][j] - (IF i = j THEN x ELSE 0)),
                               Part(v[j], m))
           IN  RAdd(RAdd(term(1), term(2)), term(3)) = Whole(0)

\* C12: get_principal_stress_history returns one row per stored timestamp;
\* principal1..principal3 are the ascending eigenvalues of the tensor stored
\* there and vector_k is an eigenvector of principal_k, k = 1, 2, 3.
C12_PrincipalHistory ==
    call.op = "get_principal_stress_history" =>
        /\ Len(ret.value) = Len(data)
        /\ \A k \in 1..Len(data) :
               LET row == ret.value[k]
                   sigma == StoredMatrix(data[k].row)
               IN  /\ row.timestamp = data[k].timestamp
                   /\ row.principal1 < row.principal2
                   /\ row.principal2 < row.principal3
                   /\ {row.principal1, row.principal2, row.principal3}
                          = IntegerRoots(sigma)
                   /\ IsEigenpair(sigma, row.principal1, row.vector1)
                   /\ IsEigenpair(sigma, row.principal2, row.vector2)
                   /\ IsEigenpair(sigma, row.principal3, row.vector3)

\* C13: the series stores a snapshot and hands out fresh tensors.  Only
\* add_tensor changes the stored rows; a rotation in place, of a tensor that
\* was added or of one that get_tensor returned, leaves every stored row,
\* what get_tensor returns and every history as it was; get_tensor returns
\* an instance that did not exist before and changes no other.
Histories(d) ==
    << get_von_mises_history(d), get_signed_von_mises_history(d),
       get_tresca_history(d), get_signed_tresca_history(d),
       [signs \in SolverSigns |-> get_principal_stress_history(d, signs)],
       [component \in Columns |-> get_time_series(d, component)] >>

C13_Snapshot ==
    [][/\ call'.op # "add_tensor" => data' = data
       /\ call'.op = "add_tensor" =>
              /\ tensors' = tensors
              /\ LET s == tensors'[call'.tensor].components
                 IN  data'[Position(data', call'.at)].row
                         = Row(<<s[1][1], s[2][2], s[3][3],
                                 s[1][2], s[2][3], s[1][3]>>)
       /\ IsRotation(call') /\ call'.inplace =>
              /\ \A ts \in Timestamps : get_tensor(data', ts) = get_tensor(data, ts)
              /\ Histories(data') = Histories(data)
       /\ call'.op = "get_tensor" /\ ret'.kind = "instance" =>
              /\ ret'.id \notin 1..Len(tensors)
              /\ \A t \in 1..Len(tensors) : tensors'[t] = tensors[t]
              /\ tensors'[ret'.id].components
                     = StoredMatrix(data[Position(data, call'.timestamp)].row)]_vars

\* the second of two tensors that held the stored components was rotated in
\* place: it differs from the stored row now, the row and the first do not
C13_Witness ==
    /\ IsRotation(call) /\ call.inplace /\ ret.kind = "instance"
    /\ call.self = 2
    /\ Len(data) = 1
    /\ tensors[1].components = StoredMatrix(data[1].row)
    /\ tensors[2].components # StoredMatrix(data[1].row)
    /\ IsSandwich(tensors[2].components, call.R, StoredMatrix(data[1].row))

====
